---- MODULE Spec2Model ----
(***************************************************************************)
(* cargo-autoinherit: the aggregation of the dependency entries of a       *)
(* workspace into one MinimalVersionSet per package name, the decision per *)
(* package name, and the two patch phases (workspace manifest, member      *)
(* manifests).  Sources: src/src/lib.rs and src/src/dedup.rs.              *)
(***************************************************************************)
EXTENDS Integers, Sequences, FiniteSets, TLC

VARIABLES
    \* try_merge on one pair of requirements (SpecMerge)
    first, second, merged, merge_pc,
    \* one MinimalVersionSet under a sequence of insert calls (SpecSet);
    \* `inserted` is the sequence of the arguments of the calls so far
    seen, dep, prev_seen, n_inserts, inserted,
    \* auto_inherit (Spec): the configuration and the manifests on disk
    conf, root_toml, member_toml,
    \* auto_inherit: control state and locals
    pc, run, member_idx, table_idx, excluded_members, package_name2specs,
    package_name2inherited_source, diagnostics,
    \* the files the current run wrote, and the manifests it started from
    written, start_root, start_members,
    \* dep2shared_dep on one dependency entry (SpecClassify)
    dependency, source_type, classify_pc

mergeVars == <<first, second, merged, merge_pc>>
setVars == <<seen, dep, prev_seen, n_inserts, inserted>>
diskVars == <<root_toml, member_toml>>
localVars == <<excluded_members, package_name2specs,
               package_name2inherited_source, diagnostics>>
runVars == <<conf, diskVars, pc, run, member_idx, table_idx, localVars,
             written, start_root, start_members>>
classifyVars == <<dependency, source_type, classify_pc>>
vars == <<mergeVars, setVars, runVars, classifyVars>>

(***************************************************************************)
(* Option<T>: None is the empty tuple, Some(x) the one-element tuple.      *)
(***************************************************************************)
None == <<>>
Some(x) == <<x>>
IsSome(o) == Len(o) = 1
IsNone(o) == Len(o) = 0
Opt(S) == {None} \cup {Some(x) : x \in S}

\* Ord for Option<u64>: None is less than every Some.
OptLess(a, b) ==
    \/ IsNone(a) /\ IsSome(b)
    \/ IsSome(a) /\ IsSome(b) /\ a[1] < b[1]

\* Ord::max for Option<u64>
OptMax(a, b) == IF OptLess(b, a) THEN a ELSE b

(***************************************************************************)
(* semver::VersionReq: a sequence of comparators; VersionReq::STAR is the  *)
(* empty sequence.  A comparator has an operator, a major number, optional *)
(* minor and patch numbers and a pre-release tag ("" is Prerelease::EMPTY).*)
(***************************************************************************)
Comparator(op, major, minor, patch, pre) ==
    [op |-> op, major |-> major, minor |-> minor, patch |-> patch, pre |-> pre]

STAR == <<>>

\* ^major.minor.patch written as one-comparator requirements
Caret1(major) == <<Comparator("Caret", major, None, None, "")>>
Caret2(major, minor) == <<Comparator("Caret", major, Some(minor), None, "")>>
Caret3(major, minor, patch) ==
    <<Comparator("Caret", major, Some(minor), Some(patch), "")>>
Exact3(major, minor, patch) ==
    <<Comparator("Exact", major, Some(minor), Some(patch), "")>>

as_simple_caret(req) ==
    IF Len(req) # 1 THEN None
    ELSE IF req[1].op # "Caret" THEN None
    ELSE IF req[1].pre # "" THEN None
    ELSE Some(req[1])

\* try_merge with the `minor == Some(0)` refusal left out
try_merge_no_zero_minor_check(a, b) ==
    IF a = b THEN Some(a)
    ELSE IF a = STAR /\ b # STAR THEN Some(b)
    ELSE IF a # STAR /\ b = STAR THEN Some(a)
    ELSE IF IsNone(as_simple_caret(a)) \/ IsNone(as_simple_caret(b)) THEN None
    ELSE LET f == as_simple_caret(a)[1]
             s == as_simple_caret(b)[1]
         IN  IF f.major # s.major THEN None
             ELSE IF f.major = 0 /\ f.minor # s.minor THEN None
             ELSE IF OptLess(f.minor, s.minor) THEN Some(<<s>>)
             ELSE IF OptLess(s.minor, f.minor) THEN Some(<<f>>)
             ELSE Some(<<Comparator("Caret", f.major, f.minor,
                                    OptMax(f.patch, s.patch), "")>>)

\* try_merge that answers a mergeable pair with its first requirement
try_merge_keeping_first(a, b) ==
    IF a = b THEN Some(a)
    ELSE IF a = STAR /\ b # STAR THEN Some(b)
    ELSE IF a # STAR /\ b = STAR THEN Some(a)
    ELSE IF IsNone(as_simple_caret(a)) \/ IsNone(as_simple_caret(b)) THEN None
    ELSE LET f == as_simple_caret(a)[1]
             s == as_simple_caret(b)[1]
         IN  IF f.major # s.major THEN None
             ELSE IF f.major = 0 /\ f.minor # s.minor THEN None
             ELSE IF f.major = 0 /\ f.minor = Some(0) THEN None
             ELSE Some(<<f>>)

try_merge(a, b) ==
    IF a = b THEN Some(a)
    ELSE IF a = STAR /\ b # STAR THEN Some(b)
    ELSE IF a # STAR /\ b = STAR THEN Some(a)
    ELSE IF IsNone(as_simple_caret(a)) \/ IsNone(as_simple_caret(b)) THEN None
    ELSE LET f == as_simple_caret(a)[1]
             s == as_simple_caret(b)[1]
         IN  IF f.major # s.major THEN None
             ELSE IF f.major = 0 THEN
                 IF f.minor # s.minor THEN None
                 ELSE IF f.minor = Some(0) THEN None
                 ELSE Some(<<Comparator("Caret", s.major, s.minor,
                                        OptMax(f.patch, s.patch), "")>>)
             ELSE IF OptLess(f.minor, s.minor) THEN
                 Some(<<Comparator("Caret", s.major, s.minor, s.patch, "")>>)
             ELSE IF OptLess(s.minor, f.minor) THEN
                 Some(<<Comparator("Caret", f.major, f.minor, f.patch, "")>>)
             ELSE
                 Some(<<Comparator("Caret", f.major, f.minor,
                                   OptMax(f.patch, s.patch), "")>>)

(***************************************************************************)
(* DependencySource and SharedDependency.  One record shape for the three  *)
(* variants: the fields a variant does not have are None.                  *)
(***************************************************************************)
VersionSource(req) ==
    [kind |-> "Version", req |-> Some(req), git |-> None, branch |-> None,
     tag |-> None, rev |-> None, path |-> None]

GitSource(git, branch, tag, rev, version) ==
    [kind |-> "Git", req |-> version, git |-> Some(git), branch |-> branch,
     tag |-> tag, rev |-> rev, path |-> None]

PathSource(path, version) ==
    [kind |-> "Path", req |-> version, git |-> None, branch |-> None,
     tag |-> None, rev |-> None, path |-> Some(path)]

SharedDependency(default_features, source) ==
    [default_features |-> default_features, source |-> source]

(***************************************************************************)
(* MinimalVersionSet: `seen` is a function from DependencySource to the    *)
(* default_features flag.  HashMap iteration order is unspecified, so      *)
(* insert yields the set of maps the scan of `seen` can end with: one per  *)
(* key that can be the first match.                                        *)
(***************************************************************************)
EmptySet == <<>>

MapRemove(m, k) == [x \in DOMAIN m \ {k} |-> m[x]]
MapInsert(m, k, v) == [x \in DOMAIN m \cup {k} |-> IF x = k THEN v ELSE m[x]]

\* the keys of `m` that the scan of lines 29-41 can stop at
MergeCandidates(m, d) ==
    {k \in DOMAIN m : /\ k.kind = "Version"
                      /\ IsSome(try_merge(d.source.req[1], k.req[1]))}

\* insert without the merge scan: every new source becomes a new key
insert_no_merge(m, d) ==
    IF d.source \in DOMAIN m
    THEN {[m EXCEPT ![d.source] = @ /\ d.default_features]}
    ELSE {MapInsert(m, d.source, d.default_features)}

\* insert that overwrites the flag of an exact duplicate instead of AND-ing
insert_overwrite_flag(m, d) ==
    IF d.source \in DOMAIN m
    THEN {[m EXCEPT ![d.source] = d.default_features]}
    ELSE IF d.source.kind = "Version" /\ MergeCandidates(m, d) # {}
    THEN {MapInsert(MapRemove(m, k),
                    VersionSource(try_merge(d.source.req[1], k.req[1])[1]),
                    m[k] /\ d.default_features) : k \in MergeCandidates(m, d)}
    ELSE {MapInsert(m, d.source, d.default_features)}

\* insert whose merged entry takes the flag of the new dependency alone
insert_merge_flag_of_new(m, d) ==
    IF d.source \in DOMAIN m
    THEN {[m EXCEPT ![d.source] = @ /\ d.default_features]}
    ELSE IF d.source.kind = "Version" /\ MergeCandidates(m, d) # {}
    THEN {MapInsert(MapRemove(m, k),
                    VersionSource(try_merge(d.source.req[1], k.req[1])[1]),
                    d.default_features) : k \in MergeCandidates(m, d)}
    ELSE {MapInsert(m, d.source, d.default_features)}

insert(m, d) ==
    IF d.source \in DOMAIN m
    THEN {[m EXCEPT ![d.source] = @ /\ d.default_features]}
    ELSE IF d.source.kind = "Version" /\ MergeCandidates(m, d) # {}
    THEN {MapInsert(MapRemove(m, k),
                    VersionSource(try_merge(d.source.req[1], k.req[1])[1]),
                    m[k] /\ d.default_features) : k \in MergeCandidates(m, d)}
    ELSE {MapInsert(m, d.source, d.default_features)}

len(m) == Cardinality(DOMAIN m)

into_iter(m) == {SharedDependency(m[k], k) : k \in DOMAIN m}

\* the maps a set can hold after insert was called with deps[i],
\* deps[i + 1], ... on each map of S
RECURSIVE insert_from(_, _, _)
insert_from(i, deps, S) ==
    IF i > Len(deps) THEN S
    ELSE insert_from(i + 1, deps, UNION {insert(m, deps[i]) : m \in S})

insert_all(m, deps) == insert_from(1, deps, {m})

(***************************************************************************)
(* A version requirement as a manifest writes it: the sequence of its      *)
(* comparators as text.  The operator text "" is a comparator written      *)
(* without operator ("1.2"), "?" stands for text semver refuses.  The      *)
(* empty sequence is the text "*".                                         *)
(***************************************************************************)
OpOfText(t) ==
    CASE t = "" -> "Caret"
      [] t = "^" -> "Caret"
      [] t = "=" -> "Exact"
      [] t = ">=" -> "GreaterEq"

TextOfOp(o) ==
    CASE o = "Caret" -> "^"
      [] o = "Exact" -> "="
      [] o = "GreaterEq" -> ">="

\* VersionReq::parse: None is the parse error
VersionReq_parse(text) ==
    IF \E i \in 1..Len(text) : text[i].op = "?" THEN None
    ELSE Some([i \in 1..Len(text) |-> [text[i] EXCEPT !.op = OpOfText(@)]])

\* Display for VersionReq: every caret comparator is written with its "^"
to_string(req) == [i \in 1..Len(req) |-> [req[i] EXCEPT !.op = TextOfOp(@)]]

\* str::trim_start_matches('^')
trim_start_caret(text) ==
    IF Len(text) > 0 /\ text[1].op = "^" THEN [text EXCEPT ![1].op = ""]
    ELSE text

(***************************************************************************)
(* Paths: absolute or relative sequences of segments.                      *)
(***************************************************************************)
Path(abs, segs) == [abs |-> abs, segs |-> segs]

RECURSIVE Normalize(_, _)
\* resolves ".." segments of `segs`, `acc` holding the resolved prefix
Normalize(acc, segs) ==
    IF Len(segs) = 0 THEN acc
    ELSE IF segs[1] = ".." /\ Len(acc) > 0
         THEN Normalize(SubSeq(acc, 1, Len(acc) - 1), Tail(segs))
         ELSE Normalize(Append(acc, segs[1]), Tail(segs))

\* parent.join(path).canonicalize()
JoinCanonical(parent, p) ==
    IF p.abs THEN Path(TRUE, Normalize(<<>>, p.segs))
    ELSE Path(TRUE, Normalize(<<>>, parent.segs \o p.segs))

RECURSIVE CommonPrefix(_, _)
CommonPrefix(s, t) ==
    IF Len(s) = 0 \/ Len(t) = 0 \/ s[1] # t[1] THEN 0
    ELSE 1 + CommonPrefix(Tail(s), Tail(t))

\* pathdiff::diff_paths(path, base), both absolute
diff_paths(p, base) ==
    LET n == CommonPrefix(p.segs, base.segs)
    IN  Path(FALSE, [i \in 1..(Len(base.segs) - n) |-> ".."]
                        \o SubSeq(p.segs, n + 1, Len(p.segs)))

(***************************************************************************)
(* cargo_manifest::Dependency.  One record shape for Simple, Inherited and *)
(* Detailed; a Simple holds its text in `version`, an Inherited holds      *)
(* `features` and `optional` beside the implied `workspace = true`.        *)
(***************************************************************************)
DependencyDetail ==
    [kind |-> "Detailed", version |-> None, registry |-> None,
     registry_index |-> None, path |-> None, git |-> None, branch |-> None,
     tag |-> None, rev |-> None, features |-> None, optional |-> None,
     default_features |-> None, package |-> None]

Simple(version) ==
    [DependencyDetail EXCEPT !.kind = "Simple", !.version = Some(version)]

Inherited(features, optional) ==
    [DependencyDetail EXCEPT !.kind = "Inherited", !.features = features,
                             !.optional = optional]

\* Dependency::package
package(d) == IF d.kind = "Detailed" THEN d.package ELSE None

\* An entry of a toml_edit table: the value and whether it is rendered as a
\* dotted key (`name.workspace = true`).
TomlItem(value, dotted) == [value |-> value, dotted |-> dotted]

\* toml::from_str of a dependency table into a DepsSet
DepsSet(table) == [k \in DOMAIN table |-> table[k].value]

rewrite_dep_paths_as_absolute(deps, parent) ==
    [k \in DOMAIN deps |->
        IF deps[k].kind = "Detailed" /\ IsSome(deps[k].path)
        THEN [deps[k] EXCEPT !.path = Some(JoinCanonical(parent, @[1]))]
        ELSE deps[k]]

rewrite_dep_path_as_relative(d, parent) ==
    IF d.kind = "Detailed" /\ IsSome(d.path)
    THEN [d EXCEPT !.path = Some(diff_paths(@[1], parent))]
    ELSE d

(***************************************************************************)
(* dep2shared_dep: the classifier.  `type` is Shareable (with the          *)
(* SharedDependency in `shared`), Inherited, MustBeSkipped, or Panic when  *)
(* an `expect` on VersionReq::parse fails.                                 *)
(***************************************************************************)
SourceType(type, shared) == [type |-> type, shared |-> shared]

\* d.version.as_ref().map(|v| VersionReq::parse(v).expect(..))
ParsesOrAbsent(version) ==
    IsNone(version) \/ IsSome(VersionReq_parse(version[1]))

MapParse(version) ==
    IF IsNone(version) THEN None ELSE Some(VersionReq_parse(version[1])[1])

\* unwrap_or(true) of the default-features flag
DefaultFeaturesOf(d) ==
    IF IsSome(d.default_features) THEN d.default_features[1] ELSE TRUE

\* the classifier without the custom-registry test
dep2shared_dep_ignoring_registry(d) ==
    IF d.kind = "Inherited" THEN SourceType("Inherited", None)
    ELSE IF ~ParsesOrAbsent(d.version) THEN SourceType("Panic", None)
    ELSE IF IsSome(d.path) THEN
        SourceType("Shareable", Some(SharedDependency(DefaultFeaturesOf(d),
            PathSource(d.path[1], MapParse(d.version)))))
    ELSE IF IsSome(d.git) THEN
        SourceType("Shareable", Some(SharedDependency(DefaultFeaturesOf(d),
            GitSource(d.git[1], d.branch, d.tag, d.rev, MapParse(d.version)))))
    ELSE IF IsSome(d.version) THEN
        SourceType("Shareable", Some(SharedDependency(DefaultFeaturesOf(d),
            VersionSource(VersionReq_parse(d.version[1])[1]))))
    ELSE SourceType("MustBeSkipped", None)

dep2shared_dep(d) ==
    IF d.kind = "Simple" THEN
        IF IsNone(VersionReq_parse(d.version[1])) THEN SourceType("Panic", None)
        ELSE SourceType("Shareable", Some(SharedDependency(TRUE,
                VersionSource(VersionReq_parse(d.version[1])[1]))))
    ELSE IF d.kind = "Inherited" THEN SourceType("Inherited", None)
    ELSE IF IsSome(d.registry) \/ IsSome(d.registry_index) THEN
        SourceType("MustBeSkipped", None)
    ELSE IF IsSome(d.path) THEN
        IF ~ParsesOrAbsent(d.version) THEN SourceType("Panic", None)
        ELSE SourceType("Shareable", Some(SharedDependency(DefaultFeaturesOf(d),
                PathSource(d.path[1], MapParse(d.version)))))
    ELSE IF IsSome(d.git) THEN
        IF ~ParsesOrAbsent(d.version) THEN SourceType("Panic", None)
        ELSE SourceType("Shareable", Some(SharedDependency(DefaultFeaturesOf(d),
                GitSource(d.git[1], d.branch, d.tag, d.rev,
                          MapParse(d.version)))))
    ELSE IF IsSome(d.version) THEN
        IF IsNone(VersionReq_parse(d.version[1])) THEN SourceType("Panic", None)
        ELSE SourceType("Shareable", Some(SharedDependency(DefaultFeaturesOf(d),
                VersionSource(VersionReq_parse(d.version[1])[1]))))
    ELSE SourceType("MustBeSkipped", None)

(***************************************************************************)
(* shared2dep and dep2toml_item: the entry written for a shared            *)
(* dependency.                                                             *)
(***************************************************************************)
MapToString(version) ==
    IF IsNone(version) THEN None ELSE Some(to_string(version[1]))

\* shared2dep that always writes the bare version string
shared2dep_always_simple(sd) ==
    IF sd.source.kind = "Version" THEN Simple(to_string(sd.source.req[1]))
    ELSE [DependencyDetail EXCEPT !.version = MapToString(sd.source.req),
                                  !.git = sd.source.git,
                                  !.path = sd.source.path]

shared2dep(sd) ==
    IF sd.source.kind = "Version" THEN
        IF sd.default_features THEN Simple(to_string(sd.source.req[1]))
        ELSE [DependencyDetail EXCEPT
                !.version = Some(to_string(sd.source.req[1])),
                !.default_features = Some(FALSE)]
    ELSE IF sd.source.kind = "Git" THEN
        [DependencyDetail EXCEPT
            !.version = MapToString(sd.source.req),
            !.git = sd.source.git,
            !.branch = sd.source.branch,
            !.tag = sd.source.tag,
            !.rev = sd.source.rev,
            !.default_features =
                IF sd.default_features THEN None ELSE Some(FALSE)]
    ELSE
        [DependencyDetail EXCEPT
            !.version = MapToString(sd.source.req),
            !.path = sd.source.path,
            !.default_features =
                IF sd.default_features THEN None ELSE Some(FALSE)]

dep2toml_item(d) ==
    IF d.kind = "Inherited" THEN TomlItem(d, FALSE)
    ELSE IF IsSome(d.version)
    THEN TomlItem([d EXCEPT !.version = Some(trim_start_caret(@[1]))], FALSE)
    ELSE TomlItem(d, FALSE)

(***************************************************************************)
(* Action and process_deps.  package_name2specs is a function from the     *)
(* names seen so far to their Action.  process_deps visits the entries of  *)
(* one table in key order (DepsSet is a BTreeMap) and yields the set of    *)
(* maps it can end with (insert depends on the HashMap scan order).        *)
(***************************************************************************)
TryInherit(set) == [kind |-> "TryInherit", seen |-> set]
Skip == [kind |-> "Skip", seen |-> EmptySet]

KeySeq == <<"a", "b">>
Keys == {KeySeq[i] : i \in 1..Len(KeySeq)}

\* a process_deps in which no `expect` fails
process_deps_never_panics(deps) == FALSE

\* the `expect` of dep2shared_dep fails on some entry of the table
process_deps_panics(deps) ==
    \E k \in DOMAIN deps : dep2shared_dep(deps[k]).type = "Panic"

\* one iteration where a shareable entry re-opens a skipped name
process_entry_reopening_skip(name, details, specs) ==
    LET st == dep2shared_dep(details)
    IN  IF st.type = "Shareable" THEN
            {MapInsert(specs, name, TryInherit(m)) :
                m \in insert(IF name \in DOMAIN specs
                             THEN specs[name].seen ELSE EmptySet,
                             st.shared[1])}
        ELSE IF st.type = "MustBeSkipped" THEN {MapInsert(specs, name, Skip)}
        ELSE {specs}

\* one iteration of the loop of process_deps
process_entry(name, details, specs) ==
    LET st == dep2shared_dep(details)
    IN  IF st.type = "Shareable" THEN
            IF name \in DOMAIN specs /\ specs[name].kind = "Skip" THEN {specs}
            ELSE {MapInsert(specs, name, TryInherit(m)) :
                    m \in insert(IF name \in DOMAIN specs
                                 THEN specs[name].seen ELSE EmptySet,
                                 st.shared[1])}
        ELSE IF st.type = "MustBeSkipped" THEN {MapInsert(specs, name, Skip)}
        ELSE {specs}

RECURSIVE process_from(_, _, _)
process_from(i, deps, S) ==
    IF i > Len(KeySeq) THEN S
    ELSE IF KeySeq[i] \notin DOMAIN deps THEN process_from(i + 1, deps, S)
    ELSE process_from(i + 1, deps,
            UNION {process_entry(KeySeq[i], deps[KeySeq[i]], sp) : sp \in S})

process_deps(deps, specs) == process_from(1, deps, {specs})

(***************************************************************************)
(* inherit_deps: rewrites the entries of one member table.  Yields the new *)
(* table and whether an entry was replaced.                                *)
(***************************************************************************)
\* the name inherit_deps looks the decision up with
lookup_name(name, d) == IF IsSome(package(d)) THEN package(d)[1] ELSE name

\* the replacement that drops the features and optional fields
inherited_item_dropping_fields(d, prefer_simple_dotted) ==
    TomlItem(Inherited(None, None), prefer_simple_dotted)

inherited_item(d, prefer_simple_dotted) ==
    IF d.kind = "Simple" THEN TomlItem(Inherited(None, None), prefer_simple_dotted)
    ELSE TomlItem(Inherited(d.features, d.optional),
                  IF IsNone(d.features) /\ IsNone(d.optional)
                  THEN prefer_simple_dotted ELSE FALSE)

replaced_keys(deps, package_name2spec) ==
    {k \in DOMAIN deps : /\ lookup_name(k, deps[k]) \in DOMAIN package_name2spec
                         /\ deps[k].kind # "Inherited"}

inherit_deps(deps, toml_deps, package_name2spec, prefer_simple_dotted) ==
    [table |-> [k \in DOMAIN toml_deps |->
                    IF k \in replaced_keys(deps, package_name2spec)
                    THEN inherited_item(deps[k], prefer_simple_dotted)
                    ELSE toml_deps[k]],
     was_modified |-> replaced_keys(deps, package_name2spec) # {}]

(***************************************************************************)
(* The workspace: the root manifest at /ws/Cargo.toml and the members'     *)
(* manifests at /ws/<member>/Cargo.toml, in the order of member_ids().     *)
(***************************************************************************)
MemberSeq == <<"m1", "m2">>
Members == {MemberSeq[i] : i \in 1..Len(MemberSeq)}

TableSeq == <<"dependencies", "dev_dependencies", "build_dependencies">>
Tables == {TableSeq[i] : i \in 1..Len(TableSeq)}

WorkspaceRoot == Path(TRUE, <<"ws">>)
ManifestDir(m) == Path(TRUE, <<"ws", m>>)

\* `cargo metadata` refuses a workspace in which a member inherits a
\* dependency that [workspace.dependencies] does not declare.  (Its other
\* refusals are not modelled.)
metadata_exec_ok(root, members) ==
    \A m \in Members : \A t \in Tables : \A k \in DOMAIN members[m][t] :
        members[m][t][k].value.kind = "Inherited"
            => k \in DOMAIN root.dependencies

\* a resolution that centralizes the first of several surviving sources
resolve_ignoring_conflicts(specs) ==
    [n \in {n \in DOMAIN specs : /\ specs[n].kind = "TryInherit"
                                 /\ len(specs[n].seen) >= 1}
        |-> CHOOSE sd \in into_iter(specs[n].seen) : TRUE]

\* the names that get a Centralize decision, with their
\* canonical SharedDependency
resolve(specs) ==
    [n \in {n \in DOMAIN specs : /\ specs[n].kind = "TryInherit"
                                 /\ len(specs[n].seen) = 1}
        |-> CHOOSE sd \in into_iter(specs[n].seen) : TRUE]

\* the lines printed to stderr
report(specs) ==
    {[name |-> n, reason |-> "unsupported", sources |-> {}] :
        n \in {n \in DOMAIN specs : specs[n].kind = "Skip"}}
    \cup
    {[name |-> n, reason |-> "multiple",
      sources |-> {sd.source : sd \in into_iter(specs[n].seen)}] :
        n \in {n \in DOMAIN specs : /\ specs[n].kind = "TryInherit"
                                    /\ len(specs[n].seen) > 1}}

\* the loop without the test for an existing entry
add_shared_overwriting(workspace_deps, inherited_source) ==
    [k \in DOMAIN workspace_deps \cup DOMAIN inherited_source |->
        IF k \in DOMAIN inherited_source
        THEN dep2toml_item(rewrite_dep_path_as_relative(
                shared2dep(inherited_source[k]), WorkspaceRoot))
        ELSE workspace_deps[k]]

\* the [workspace.dependencies] table after the loop
add_shared(workspace_deps, inherited_source) ==
    [k \in DOMAIN workspace_deps \cup DOMAIN inherited_source |->
        IF k \in DOMAIN workspace_deps THEN workspace_deps[k]
        ELSE dep2toml_item(rewrite_dep_path_as_relative(
                shared2dep(inherited_source[k]), WorkspaceRoot))]

\* one member's manifest after the three inherit_deps calls
inherit_member(manifest, inherited_source, prefer_simple_dotted) ==
    [t \in Tables |->
        inherit_deps(DepsSet(manifest[t]), manifest[t], inherited_source,
                     prefer_simple_dotted).table]

\* an exclusion test that never excludes
is_excluded_never(m, excluded) == FALSE

is_excluded(m, excluded) == m \in excluded

(***************************************************************************)
(* Spec: auto_inherit run MaxRuns times in succession on one workspace.    *)
(* The workspace holds at most MaxEntries dependency entries, drawn from   *)
(* RootChoices and MemberChoices, over the root table and the three tables *)
(* of every member.                                                        *)
(***************************************************************************)
MaxEntries == 3
MaxRuns == 2

\* requirement texts
Text2(op, major, minor) == <<Comparator(op, major, Some(minor), None, "")>>
Text3(op, major, minor, patch) ==
    <<Comparator(op, major, Some(minor), Some(patch), "")>>
BadText == <<Comparator("?", 0, None, None, "")>>

PlainChoices ==
    {Simple(Text2("", 1, 2)),
     [DependencyDetail EXCEPT !.version = Some(Text3("=", 2, 0, 0)),
                              !.package = Some("b")],
     [DependencyDetail EXCEPT !.version = Some(Text2("", 1, 3)),
                              !.package = Some("a"),
                              !.default_features = Some(FALSE),
                              !.features = Some(<<"f">>),
                              !.optional = Some(TRUE)],
     [DependencyDetail EXCEPT !.version = Some(Text2("", 1, 2)),
                              !.registry = Some("r")],
     Simple(BadText)}

RootChoices ==
    PlainChoices
        \cup {[DependencyDetail EXCEPT !.git = Some("https://example.com/x.git"),
                                       !.tag = Some("v1")]}

MemberChoices ==
    PlainChoices
        \cup {[DependencyDetail EXCEPT !.path = Some(Path(FALSE, <<"..", "x">>))],
              Inherited(Some(<<"f">>), None)}

\* the keys a table may hold an entry for
SlotKeys(table) ==
    CASE table = "dependencies" -> {"a", "b"}
      [] table = "dev_dependencies" -> {"a"}
      [] table = "build_dependencies" -> {"b"}

Slots ==
    {<<"root", "dependencies", k>> : k \in Keys}
        \cup UNION {{<<m, t, k>> : k \in SlotKeys(t)} : m \in Members, t \in Tables}

ChoicesFor(slot) == IF slot[1] = "root" THEN RootChoices ELSE MemberChoices

Layouts == {S \in SUBSET Slots : Cardinality(S) <= MaxEntries}

\* the table of `file` and `table` in a layout S with the values val
TableOf(S, val, file, table) ==
    [k \in {k \in Keys : <<file, table, k>> \in S} |->
        TomlItem(val[<<file, table, k>>], FALSE)]

\* exclude-members of the configuration, of the workspace metadata, and
\* prefer_simple_dotted
ConfChoices ==
    {<<{}, {}, FALSE>>, <<{}, {}, TRUE>>, <<{"m2"}, {}, FALSE>>,
     <<{}, {"m2"}, FALSE>>}

MergeIdle ==
    /\ first = STAR
    /\ second = STAR
    /\ merged = None
    /\ merge_pc = "idle"

SetIdle ==
    /\ seen = EmptySet
    /\ dep = SharedDependency(TRUE, VersionSource(STAR))
    /\ prev_seen = EmptySet
    /\ n_inserts = 0
    /\ inserted = <<>>

RunIdle ==
    /\ conf = [exclude_members |-> {}, prefer_simple_dotted |-> FALSE]
    /\ root_toml = [dependencies |-> <<>>, exclude_members |-> {}]
    /\ member_toml = [m \in Members |-> [t \in Tables |-> <<>>]]
    /\ pc = "idle"
    /\ run = 0
    /\ member_idx = 0
    /\ table_idx = 0
    /\ excluded_members = {}
    /\ package_name2specs = <<>>
    /\ package_name2inherited_source = <<>>
    /\ diagnostics = {}
    /\ written = {}
    /\ start_root = root_toml
    /\ start_members = member_toml

ClassifyIdle ==
    /\ dependency = Inherited(None, None)
    /\ source_type = None
    /\ classify_pc = "idle"

Init ==
    /\ \E S \in Layouts : \E val \in [S -> RootChoices \cup MemberChoices] :
       \E c \in ConfChoices :
        /\ \A slot \in S : val[slot] \in ChoicesFor(slot)
        /\ root_toml = [dependencies |-> TableOf(S, val, "root", "dependencies"),
                        exclude_members |-> c[2]]
        /\ member_toml = [m \in Members |-> [t \in Tables |-> TableOf(S, val, m, t)]]
        /\ conf = [exclude_members |-> c[1], prefer_simple_dotted |-> c[3]]
    /\ metadata_exec_ok(root_toml, member_toml)
    /\ pc = "load"
    /\ run = 1
    /\ member_idx = 0
    /\ table_idx = 0
    /\ excluded_members = {}
    /\ package_name2specs = <<>>
    /\ package_name2inherited_source = <<>>
    /\ diagnostics = {}
    /\ written = {}
    /\ start_root = root_toml
    /\ start_members = member_toml
    /\ MergeIdle
    /\ SetIdle
    /\ ClassifyIdle

\* lines 129-157: the workspace graph is loaded and the exclusion list built
LoadWorkspace ==
    /\ pc = "load"
    /\ IF metadata_exec_ok(root_toml, member_toml)
       THEN /\ excluded_members' =
                    conf.exclude_members \cup root_toml.exclude_members
            /\ pc' = "root"
       ELSE /\ pc' = "aborted"
            /\ UNCHANGED excluded_members
    /\ UNCHANGED <<conf, diskVars, run, member_idx, table_idx,
                   package_name2specs, package_name2inherited_source,
                   diagnostics, written, start_root, start_members,
                   mergeVars, setVars, classifyVars>>

\* lines 159-163: the entries of [workspace.dependencies]
ProcessRoot ==
    /\ pc = "root"
    /\ LET deps == rewrite_dep_paths_as_absolute(
                        DepsSet(root_toml.dependencies), WorkspaceRoot)
       IN  IF process_deps_panics(deps)
           THEN /\ pc' = "aborted"
                /\ UNCHANGED <<package_name2specs, member_idx, table_idx>>
           ELSE /\ \E sp \in process_deps(deps, package_name2specs) :
                        package_name2specs' = sp
                /\ pc' = "aggregate"
                /\ member_idx' = 1
                /\ table_idx' = 1
    /\ UNCHANGED <<conf, diskVars, run, excluded_members,
                   package_name2inherited_source, diagnostics, written,
                   start_root, start_members, mergeVars, setVars, classifyVars>>

\* the cursor after one table of member member_idx (lines 165-199)
AdvanceTable ==
    IF table_idx < Len(TableSeq)
    THEN /\ table_idx' = table_idx + 1
         /\ member_idx' = member_idx
         /\ pc' = "aggregate"
    ELSE /\ table_idx' = 1
         /\ member_idx' = member_idx + 1
         /\ pc' = IF member_idx = Len(MemberSeq) THEN "resolve" ELSE "aggregate"

\* lines 170-173: an excluded member is passed over
SkipExcludedMember ==
    /\ pc = "aggregate"
    /\ is_excluded(MemberSeq[member_idx], excluded_members)
    /\ table_idx' = 1
    /\ member_idx' = member_idx + 1
    /\ pc' = IF member_idx = Len(MemberSeq) THEN "resolve" ELSE "aggregate"
    /\ UNCHANGED <<conf, diskVars, run, localVars, written, start_root,
                   start_members, mergeVars, setVars, classifyVars>>

\* lines 178-198: process_deps on one of the three tables of a member
ProcessMemberTable ==
    /\ pc = "aggregate"
    /\ ~is_excluded(MemberSeq[member_idx], excluded_members)
    /\ LET m == MemberSeq[member_idx]
           deps == rewrite_dep_paths_as_absolute(
                        DepsSet(member_toml[m][TableSeq[table_idx]]),
                        ManifestDir(m))
       IN  IF process_deps_panics(deps)
           THEN /\ pc' = "aborted"
                /\ UNCHANGED <<package_name2specs, member_idx, table_idx>>
           ELSE /\ \E sp \in process_deps(deps, package_name2specs) :
                        package_name2specs' = sp
                /\ AdvanceTable
    /\ UNCHANGED <<conf, diskVars, run, excluded_members,
                   package_name2inherited_source, diagnostics, written,
                   start_root, start_members, mergeVars, setVars, classifyVars>>

\* lines 201-218: one decision per package name
Resolve ==
    /\ pc = "resolve"
    /\ package_name2inherited_source' = resolve(package_name2specs)
    /\ diagnostics' = report(package_name2specs)
    /\ pc' = "workspace"
    /\ UNCHANGED <<conf, diskVars, run, member_idx, table_idx,
                   excluded_members, package_name2specs, written, start_root,
                   start_members, mergeVars, setVars, classifyVars>>

\* lines 220-255: the workspace phase; the file is written only if an entry
\* was added
WorkspacePhase ==
    /\ pc = "workspace"
    /\ LET new_deps == add_shared(root_toml.dependencies,
                                  package_name2inherited_source)
           was_modified == DOMAIN new_deps # DOMAIN root_toml.dependencies
       IN  /\ root_toml' = IF was_modified
                           THEN [root_toml EXCEPT !.dependencies = new_deps]
                           ELSE root_toml
           /\ written' = IF was_modified THEN written \cup {"root"} ELSE written
    /\ pc' = "inherit"
    /\ member_idx' = 1
    /\ UNCHANGED <<conf, member_toml, run, table_idx, localVars, start_root,
                   start_members, mergeVars, setVars, classifyVars>>

\* the cursor after one member of the member phase
AdvanceMember ==
    /\ member_idx' = member_idx + 1
    /\ pc' = IF member_idx = Len(MemberSeq) THEN "done" ELSE "inherit"

\* lines 260-262
SkipExcludedInherit ==
    /\ pc = "inherit"
    /\ is_excluded(MemberSeq[member_idx], excluded_members)
    /\ AdvanceMember
    /\ UNCHANGED <<conf, diskVars, run, table_idx, localVars, written,
                   start_root, start_members, mergeVars, setVars, classifyVars>>

\* lines 264-314: the member phase for one member; the file is written only
\* if an entry was replaced
InheritMember ==
    /\ pc = "inherit"
    /\ ~is_excluded(MemberSeq[member_idx], excluded_members)
    /\ LET m == MemberSeq[member_idx]
           was_modified ==
               \E t \in Tables :
                   inherit_deps(DepsSet(member_toml[m][t]), member_toml[m][t],
                                package_name2inherited_source,
                                conf.prefer_simple_dotted).was_modified
       IN  /\ member_toml' =
                IF was_modified
                THEN [member_toml EXCEPT
                        ![m] = inherit_member(@, package_name2inherited_source,
                                              conf.prefer_simple_dotted)]
                ELSE member_toml
           /\ written' = IF was_modified THEN written \cup {m} ELSE written
    /\ AdvanceMember
    /\ UNCHANGED <<conf, root_toml, run, table_idx, localVars, start_root,
                   start_members, mergeVars, setVars, classifyVars>>

\* auto_inherit is invoked again on the manifests the last run left
NextRun ==
    /\ pc = "done"
    /\ run < MaxRuns
    /\ run' = run + 1
    /\ pc' = "load"
    /\ member_idx' = 0
    /\ table_idx' = 0
    /\ excluded_members' = {}
    /\ package_name2specs' = <<>>
    /\ package_name2inherited_source' = <<>>
    /\ diagnostics' = {}
    /\ written' = {}
    /\ start_root' = root_toml
    /\ start_members' = member_toml
    /\ UNCHANGED <<conf, diskVars, mergeVars, setVars, classifyVars>>

Next ==
    \/ LoadWorkspace
    \/ ProcessRoot
    \/ SkipExcludedMember
    \/ ProcessMemberTable
    \/ Resolve
    \/ WorkspacePhase
    \/ SkipExcludedInherit
    \/ InheritMember
    \/ NextRun

Spec == Init /\ [][Next]_vars

(***************************************************************************)
(* Bounds of the requirement universe of SpecMerge.                        *)
(***************************************************************************)
MaxMajor == 2
MaxMinor == 2
MaxPatch == 1

Ops == {"Caret", "Exact", "GreaterEq"}
Pres == {"", "alpha"}

Comparators ==
    {c \in [op : Ops, major : 0..MaxMajor, minor : Opt(0..MaxMinor),
            patch : Opt(0..MaxPatch), pre : Pres] :
        /\ IsNone(c.minor) => IsNone(c.patch)
        /\ c.pre # "" => IsSome(c.patch)}

\* two-comparator requirements such as ">=1.0, ^1.2"
MultiReqs ==
    {<<c, d>> : c \in {Comparator("GreaterEq", 1, Some(0), None, ""),
                       Comparator("Caret", 1, Some(1), None, "")},
                d \in {Comparator("Caret", 1, Some(2), None, "")}}

Reqs == {<<c>> : c \in Comparators} \cup {STAR} \cup MultiReqs

(***************************************************************************)
(* SpecMerge: try_merge applied to one pair of requirements.               *)
(***************************************************************************)
InitMerge ==
    /\ first \in Reqs
    /\ second \in Reqs
    /\ merged = None
    /\ merge_pc = "call"
    /\ SetIdle
    /\ RunIdle
    /\ ClassifyIdle

CallTryMerge ==
    /\ merge_pc = "call"
    /\ merged' = try_merge(first, second)
    /\ merge_pc' = "done"
    /\ UNCHANGED <<first, second, setVars, runVars, classifyVars>>

NextMerge == CallTryMerge

SpecMerge == InitMerge /\ [][NextMerge]_vars

(***************************************************************************)
(* SpecSet: insert calls on one MinimalVersionSet, starting empty.         *)
(***************************************************************************)
MaxInserts == 3

SetReqs ==
    {STAR, Caret2(1, 2), Caret3(1, 3, 1), Caret3(1, 2, 5), Caret2(2, 3),
     Caret2(0, 1), Caret3(0, 1, 2), Caret2(0, 2), Caret3(0, 0, 1),
     Caret3(0, 0, 2), Exact3(1, 0, 0),
     <<Comparator("Caret", 1, Some(2), Some(3), "alpha")>>}

SetSources ==
    {VersionSource(r) : r \in SetReqs}
        \cup {GitSource("https://example.com/x.git", None, None, None, None),
              PathSource("/ws/x", None)}

SetDeps == {SharedDependency(df, s) : df \in BOOLEAN, s \in SetSources}

InitSet ==
    /\ seen = EmptySet
    /\ dep = SharedDependency(TRUE, VersionSource(STAR))
    /\ prev_seen = EmptySet
    /\ n_inserts = 0
    /\ inserted = <<>>
    /\ MergeIdle
    /\ RunIdle
    /\ ClassifyIdle

Insert ==
    /\ n_inserts < MaxInserts
    /\ \E d \in SetDeps :
        /\ dep' = d
        /\ \E m \in insert(seen, d) : seen' = m
    /\ prev_seen' = seen
    /\ n_inserts' = n_inserts + 1
    /\ inserted' = Append(inserted, dep')
    /\ UNCHANGED <<mergeVars, runVars, classifyVars>>

NextSet == Insert

SpecSet == InitSet /\ [][NextSet]_vars

(***************************************************************************)
(* SpecClassify: dep2shared_dep applied to one dependency entry.  The      *)
(* entries are the bare strings, the workspace references, and the         *)
(* detailed tables over every combination of present and absent fields.    *)
(***************************************************************************)
VersionTexts == {Text2("", 1, 2), Text3("=", 2, 0, 0), BadText}

DetailedEntries ==
    {[DependencyDetail EXCEPT
        !.version = f.version, !.registry = f.registry,
        !.registry_index = f.registry_index, !.path = f.path, !.git = f.git,
        !.tag = f.tag, !.default_features = f.default_features,
        !.package = f.package] :
     f \in [version : Opt({Text2("", 1, 2), BadText}),
            registry : Opt({"r"}),
            registry_index : Opt({"https://example.com/index"}),
            path : Opt({Path(TRUE, <<"ws", "x">>)}),
            git : Opt({"https://example.com/x.git"}),
            tag : Opt({"v1"}),
            default_features : Opt(BOOLEAN),
            package : Opt({"b"})]}

Dependencies ==
    {Simple(t) : t \in VersionTexts}
        \cup {Inherited(f, o) : f \in Opt({<<"f">>}), o \in Opt(BOOLEAN)}
        \cup DetailedEntries

InitClassify ==
    /\ dependency \in Dependencies
    /\ source_type = None
    /\ classify_pc = "call"
    /\ MergeIdle
    /\ SetIdle
    /\ RunIdle

CallClassify ==
    /\ classify_pc = "call"
    /\ source_type' = Some(dep2shared_dep(dependency))
    /\ classify_pc' = "done"
    /\ UNCHANGED <<dependency, mergeVars, setVars, runVars>>

NextClassify == CallClassify

SpecClassify == InitClassify /\ [][NextClassify]_vars

(***************************************************************************)
(* The aggregation pass as a whole (lines 159-199): the maps                *)
(* package_name2specs can hold after the root table and the tables of      *)
(* every member outside `excluded` were visited.                           *)
(***************************************************************************)
aggregate_table(S, deps) == UNION {process_deps(deps, sp) : sp \in S}

aggregate_member(S, manifest, m) ==
    LET deps(t) == rewrite_dep_paths_as_absolute(DepsSet(manifest[t]),
                                                 ManifestDir(m))
    IN  aggregate_table(
            aggregate_table(
                aggregate_table(S, deps(TableSeq[1])),
                deps(TableSeq[2])),
            deps(TableSeq[3]))

RECURSIVE aggregate_from(_, _, _, _)
aggregate_from(i, S, members, excluded) ==
    IF i > Len(MemberSeq) THEN S
    ELSE IF MemberSeq[i] \in excluded
         THEN aggregate_from(i + 1, S, members, excluded)
         ELSE aggregate_from(i + 1,
                             aggregate_member(S, members[MemberSeq[i]],
                                              MemberSeq[i]),
                             members, excluded)

aggregate(root, members, excluded) ==
    aggregate_from(1,
        process_deps(rewrite_dep_paths_as_absolute(DepsSet(root.dependencies),
                                                   WorkspaceRoot), <<>>),
        members, excluded)

(***************************************************************************)
(* Vocabulary of the claims about a run.                                   *)
(***************************************************************************)
\* the run has resolved its decisions
Resolved == pc \in {"workspace", "inherit", "done"}

\* the workspace phase of the run is over
WorkspaceDone == pc \in {"inherit", "done"}

Centralized == DOMAIN package_name2inherited_source

\* the names the run does not centralize: Action Skip, or several sources
Skipped ==
    {n \in DOMAIN package_name2specs :
        \/ package_name2specs[n].kind = "Skip"
        \/ len(package_name2specs[n].seen) > 1}

\* the exclusion list: the configured names and those of the metadata
ExclusionList == conf.exclude_members \cup start_root.exclude_members

InScope == Members \ ExclusionList

\* the package name of an entry: its `package` field, else its key
PackageName(k, d) == IF IsSome(d.package) THEN d.package[1] ELSE k

\* the SharedDependency an entry of [workspace.dependencies] declares
Declared(item) ==
    dep2shared_dep(
        rewrite_dep_paths_as_absolute([x \in {"x"} |-> item.value],
                                      WorkspaceRoot)["x"])

\* the entries of the members the run started from: <<member, table, key>>
StartEntries ==
    {e \in Members \X Tables \X Keys : e[3] \in DOMAIN start_members[e[1]][e[2]]}

StartValue(e) == start_members[e[1]][e[2]][e[3]].value

\* the entry is present now
NowValue(e) == member_toml[e[1]][e[2]][e[3]].value

\* no entry of the workspace the run started from uses an alias
NoAlias ==
    /\ \A e \in StartEntries : PackageName(e[3], StartValue(e)) = e[3]
    /\ \A k \in DOMAIN start_root.dependencies :
            PackageName(k, start_root.dependencies[k].value) = k

(***************************************************************************)
(* C1: Workspace phase post-condition.  For every package name with a      *)
(* Centralize decision: an entry the shared-dependencies table had before  *)
(* the run is unchanged; otherwise the table holds afterwards an entry     *)
(* that declares the canonical SharedDependency, a bare version string     *)
(* when the source is a Version and defaultFeatures is true, a detailed    *)
(* table otherwise.  No other entry is added, changed or removed.          *)
(***************************************************************************)
C1_WorkspacePhase ==
    WorkspaceDone =>
        LET before == start_root.dependencies
            after == root_toml.dependencies
        IN  /\ DOMAIN after = DOMAIN before \cup Centralized
            /\ \A k \in DOMAIN before : after[k] = before[k]
            /\ \A n \in Centralized \ DOMAIN before :
                LET sd == package_name2inherited_source[n]
                IN  /\ Declared(after[n]) = SourceType("Shareable", Some(sd))
                    /\ after[n].value.kind =
                        IF sd.source.kind = "Version" /\ sd.default_features
                        THEN "Simple" ELSE "Detailed"
            /\ root_toml.exclude_members = start_root.exclude_members

\* one centralized name was declared before the run, another one was added
\* as a detailed table
C1_Witness ==
    /\ pc = "done"
    /\ run = 1
    /\ \E n \in Centralized : n \in DOMAIN start_root.dependencies
    /\ \E n \in Centralized :
        /\ n \notin DOMAIN start_root.dependencies
        /\ root_toml.dependencies[n].value.kind = "Detailed"

(***************************************************************************)
(* C2: Member phase post-condition.  In every non-excluded member, every   *)
(* entry of the three tables whose package name has a Centralize decision  *)
(* and that is not already Inherited is replaced by `workspace = true`     *)
(* plus exactly the features and optional fields of the original entry;    *)
(* every other entry is unchanged.  (The package name of an entry is its   *)
(* `package` field when it has one, its key otherwise.)                    *)
(***************************************************************************)
C2_MemberPhase ==
    pc = "done" =>
        /\ \A m \in Members : \A t \in Tables :
                DOMAIN member_toml[m][t] = DOMAIN start_members[m][t]
        /\ \A e \in StartEntries :
            e[1] \in InScope =>
                LET d == StartValue(e)
                IN  IF /\ PackageName(e[3], d) \in Centralized
                       /\ d.kind # "Inherited"
                    THEN NowValue(e) =
                            Inherited(IF d.kind = "Detailed" THEN d.features ELSE None,
                                      IF d.kind = "Detailed" THEN d.optional ELSE None)
                    ELSE member_toml[e[1]][e[2]][e[3]]
                            = start_members[e[1]][e[2]][e[3]]

\* an entry with features was replaced and kept them, another entry of a
\* name without a decision stayed
C2_Witness ==
    /\ pc = "done"
    /\ run = 1
    /\ \E e \in StartEntries :
        /\ StartValue(e).kind = "Detailed"
        /\ IsSome(StartValue(e).features)
        /\ NowValue(e).kind = "Inherited"
        /\ NowValue(e).features = StartValue(e).features
    /\ \E e \in StartEntries :
        /\ e[1] \in InScope
        /\ StartValue(e).kind = "Simple"
        /\ NowValue(e) = StartValue(e)

(***************************************************************************)
(* C3: Idempotence.  In the second of two successive runs with the same    *)
(* configuration no manifest is written: every manifest after the second   *)
(* run is what the first run left.                                         *)
(***************************************************************************)
C3_Idempotent ==
    (run = 2 /\ pc = "done") =>
        /\ written = {}
        /\ root_toml = start_root
        /\ member_toml = start_members

\* the same, for workspaces in which no entry uses an alias
C3_IdempotentNoAlias == NoAlias => C3_Idempotent

(***************************************************************************)
(* C4: Sticky skip.  Once the Action of a package name is Skip it is Skip  *)
(* after every later process_deps step of the run; and a name with an      *)
(* aggregated entry classified MustBeSkipped ends with the decision Skip,  *)
(* not Centralize, wherever that entry is visited.                         *)
(***************************************************************************)
SkipNames == {n \in DOMAIN package_name2specs : package_name2specs[n].kind = "Skip"}

\* the names with a MustBeSkipped entry among the aggregated tables
MustSkipNames ==
    {k \in DOMAIN start_root.dependencies :
        dep2shared_dep(start_root.dependencies[k].value).type = "MustBeSkipped"}
    \cup
    {e[3] : e \in {e \in StartEntries :
                    /\ e[1] \in InScope
                    /\ dep2shared_dep(StartValue(e)).type = "MustBeSkipped"}}

C4_SkipStaysSkip ==
    [][(run' = run) =>
        \A n \in SkipNames :
            /\ n \in DOMAIN package_name2specs'
            /\ package_name2specs'[n].kind = "Skip"]_vars

C4_MustSkipDecidesSkip ==
    Resolved =>
        \A n \in MustSkipNames :
            /\ n \in SkipNames
            /\ n \notin Centralized

C4_StickySkip == C4_SkipStaysSkip /\ []C4_MustSkipDecidesSkip

\* a name was skipped by an entry of the root table and a shareable entry
\* for it was visited afterwards in a member
C4_Witness ==
    /\ pc = "workspace"
    /\ \E e \in StartEntries :
        /\ e[1] \in InScope
        /\ dep2shared_dep(StartValue(e)).type = "Shareable"
        /\ e[3] \in DOMAIN start_root.dependencies
        /\ dep2shared_dep(start_root.dependencies[e[3]].value).type
                = "MustBeSkipped"
        /\ e[3] \in SkipNames

(***************************************************************************)
(* C8: Decision resolution.  A package name gets a Centralize decision if  *)
(* and only if its Action is TryInherit and its MinimalVersionSet holds    *)
(* exactly one entry, which is then the canonical SharedDependency; a name *)
(* whose set holds more than one entry is not centralized and its          *)
(* diagnostic lists every surviving source.                                *)
(***************************************************************************)
C8_DecisionResolution ==
    Resolved =>
        /\ Centralized \subseteq DOMAIN package_name2specs
        /\ \A n \in DOMAIN package_name2specs :
            LET action == package_name2specs[n]
            IN  /\ n \in Centralized <=>
                        (action.kind = "TryInherit" /\ len(action.seen) = 1)
                /\ n \in Centralized =>
                        into_iter(action.seen) = {package_name2inherited_source[n]}
                /\ (action.kind = "TryInherit" /\ len(action.seen) > 1) =>
                        /\ n \notin Centralized
                        /\ [name |-> n, reason |-> "multiple",
                            sources |-> DOMAIN action.seen] \in diagnostics

\* one name has two surviving sources, another one is centralized
C8_Witness ==
    /\ pc = "workspace"
    /\ \E n \in DOMAIN package_name2specs :
        /\ package_name2specs[n].kind = "TryInherit"
        /\ len(package_name2specs[n].seen) = 2
    /\ Centralized # {}

(***************************************************************************)
(* C9: Skipped packages are left untouched.  For every package name whose  *)
(* decision is Skip (Action Skip, or more than one surviving entry) the    *)
(* run adds no entry for it to the shared-dependencies table and modifies  *)
(* no member entry that contributed to its Action; the run completes and   *)
(* applies the Centralize decisions of the other names.                    *)
(***************************************************************************)
\* the member entries that process_deps recorded under the name n
Contributors(n) ==
    {e \in StartEntries : /\ e[1] \in InScope
                          /\ e[3] = n
                          /\ StartValue(e).kind # "Inherited"}

C9_SkippedUntouched ==
    pc = "done" =>
        \A n \in Skipped :
            /\ n \notin DOMAIN start_root.dependencies
                    => n \notin DOMAIN root_toml.dependencies
            /\ \A e \in Contributors(n) :
                    member_toml[e[1]][e[2]][e[3]] = start_members[e[1]][e[2]][e[3]]

\* the same, for workspaces in which no entry uses an alias
C9_SkippedUntouchedNoAlias == NoAlias => C9_SkippedUntouched

(***************************************************************************)
(* C10: Excluded members.  The manifest of a member named in the exclusion *)
(* list (configuration or workspace metadata) is never written, and the    *)
(* decisions are those of the workspace without that member's entries.     *)
(***************************************************************************)
\* the members' manifests with the tables of the excluded members emptied
WithoutExcluded ==
    [m \in Members |->
        IF m \in ExclusionList THEN [t \in Tables |-> <<>>]
        ELSE start_members[m]]

C10_ExcludedMembers ==
    /\ \A m \in ExclusionList \cap Members :
        /\ m \notin written
        /\ member_toml[m] = start_members[m]
    /\ Resolved =>
        package_name2specs \in aggregate(start_root, WithoutExcluded, {})

\* an excluded member holds an entry for a name that is centralized from
\* the entries of the other members
C10_Witness ==
    /\ pc = "done"
    /\ \E e \in StartEntries :
        /\ e[1] \in ExclusionList
        /\ StartValue(e).kind = "Simple"
        /\ e[3] \in Centralized
        /\ e[3] \notin DOMAIN start_root.dependencies

(***************************************************************************)
(* The merge rule as the specification words it (section 4.2), written     *)
(* without reference to try_merge.                                         *)
(***************************************************************************)
IsSimpleCaret(r) == Len(r) = 1 /\ r[1].op = "Caret" /\ r[1].pre = ""

NumMax(x, y) == IF x >= y THEN x ELSE y

\* the larger of two optional patch numbers, an absent one counting least
PatchMax(p, q) ==
    IF IsNone(p) THEN q
    ELSE IF IsNone(q) THEN p
    ELSE Some(NumMax(p[1], q[1]))

\* minor p is strictly greater than minor q, an absent one counting least
MinorGreater(p, q) == IsSome(p) /\ (IsNone(q) \/ p[1] > q[1])

MergeRule(A, B) ==
    IF A = B THEN Some(A)
    ELSE IF (A = STAR) # (B = STAR) THEN (IF A = STAR THEN Some(B) ELSE Some(A))
    ELSE IF ~(IsSimpleCaret(A) /\ IsSimpleCaret(B)) THEN None
    ELSE IF A[1].major # B[1].major THEN None
    ELSE IF A[1].major = 0 THEN
        IF A[1].minor # B[1].minor \/ A[1].minor = Some(0) THEN None
        ELSE Some(<<Comparator("Caret", 0, A[1].minor,
                               PatchMax(A[1].patch, B[1].patch), "")>>)
    ELSE IF MinorGreater(A[1].minor, B[1].minor) THEN Some(A)
    ELSE IF MinorGreater(B[1].minor, A[1].minor) THEN Some(B)
    ELSE Some(<<Comparator("Caret", A[1].major, A[1].minor,
                           PatchMax(A[1].patch, B[1].patch), "")>>)

C6_ExactDuplicate ==
    /\ (n_inserts > 0 /\ dep.source \in DOMAIN prev_seen) =>
        /\ DOMAIN seen = DOMAIN prev_seen
        /\ len(seen) = len(prev_seen)
        /\ seen[dep.source] = (prev_seen[dep.source] /\ dep.default_features)
        /\ \A k \in DOMAIN prev_seen \ {dep.source} : seen[k] = prev_seen[k]
    /\ (/\ n_inserts = 2
        /\ DOMAIN prev_seen = {dep.source}
        /\ prev_seen[dep.source] # dep.default_features) =>
        /\ DOMAIN seen = {dep.source}
        /\ seen[dep.source] = FALSE

\* the stored flag is false, the inserted one true, and other keys exist
C6_Witness ==
    /\ n_inserts = 3
    /\ dep.source \in DOMAIN prev_seen
    /\ len(prev_seen) = 2
    /\ prev_seen[dep.source] = FALSE
    /\ dep.default_features = TRUE
    /\ seen[dep.source] = FALSE

(***************************************************************************)
(* C7: try_merge agrees with the mergeability rules of the specification   *)
(* for every pair of requirements: identical requirements merge to the     *)
(* first; a wildcard is absorbed by a non-wildcard; two simple carets      *)
(* merge by the major/minor/patch rules; every other pair does not merge.  *)
(***************************************************************************)
C7_TryMergeMatchesRule ==
    merge_pc = "done" => merged = MergeRule(first, second)

\* a pre-1.0 pair with the same non-zero minor merged to the larger patch
C7_Witness ==
    /\ merge_pc = "done"
    /\ first = Caret3(0, 1, 1)
    /\ second = Caret2(0, 1)
    /\ merged = Some(Caret3(0, 1, 1))

(***************************************************************************)
(* Vocabulary of the claims about the classifier.                          *)
(***************************************************************************)
Classified == classify_pc = "done"

Result == source_type[1]

UsesRegistry(d) == IsSome(d.registry) \/ IsSome(d.registry_index)

HasLocator(d) == IsSome(d.path) \/ IsSome(d.git) \/ IsSome(d.version)

\* the version-requirement text of the entry, when it has one, parses
VersionParses(d) == IsNone(d.version) \/ d.version[1] # BadText

\* the kind of source the locators of a detailed entry select
LocatorKind(d) ==
    IF IsSome(d.path) THEN "Path"
    ELSE IF IsSome(d.git) THEN "Git"
    ELSE "Version"

\* the result is Shareable with the source and the flag the rule gives
ShareableAsRuled(d, r) ==
    /\ r.type = "Shareable"
    /\ IF d.kind = "Simple"
       THEN /\ r.shared[1].source.kind = "Version"
            /\ r.shared[1].default_features
       ELSE /\ r.shared[1].source.kind = LocatorKind(d)
            /\ r.shared[1].default_features
                    = (d.default_features # Some(FALSE))
            /\ IsSome(d.path) => r.shared[1].source.path = d.path
            /\ (IsNone(d.path) /\ IsSome(d.git)) =>
                    /\ r.shared[1].source.git = d.git
                    /\ r.shared[1].source.tag = d.tag
            /\ IsSome(r.shared[1].source.req) <=> IsSome(d.version)

(***************************************************************************)
(* C11: Classifier result.  An entry that delegates to the workspace is    *)
(* Inherited; an entry with `registry` or `registry-index` set is          *)
(* MustBeSkipped regardless of its other fields; every other entry with a  *)
(* locator (`path`, `git` or `version`) and a parsable version text is     *)
(* Shareable, with source Path if `path` is set, else Git if `git` is set, *)
(* else Version, a bare string being a Version source with                 *)
(* defaultFeatures true, and with defaultFeatures the explicit flag or     *)
(* true when unspecified.  A detailed entry without registry and without   *)
(* any locator is MustBeSkipped.                                           *)
(***************************************************************************)
C11_Classifier ==
    Classified =>
        LET d == dependency
            r == Result
        IN  /\ d.kind = "Inherited" => r.type = "Inherited"
            /\ (d.kind = "Detailed" /\ UsesRegistry(d))
                    => r.type = "MustBeSkipped"
            /\ (d.kind = "Detailed" /\ ~UsesRegistry(d) /\ ~HasLocator(d))
                    => r.type = "MustBeSkipped"
            /\ (/\ d.kind # "Inherited"
                /\ ~UsesRegistry(d)
                /\ HasLocator(d)
                /\ VersionParses(d)) => ShareableAsRuled(d, r)

\* a detailed entry with path, git and version and the flag switched off
\* was classified as a Path source
C11_Witness ==
    /\ Classified
    /\ dependency.kind = "Detailed"
    /\ ~UsesRegistry(dependency)
    /\ IsSome(dependency.path) /\ IsSome(dependency.git)
    /\ IsSome(dependency.version)
    /\ dependency.default_features = Some(FALSE)
    /\ Result.type = "Shareable"
    /\ Result.shared[1].source.kind = "Path"
    /\ ~Result.shared[1].default_features

\* C11 as the specification words it: every entry that neither delegates to
\* the workspace nor uses a registry is Shareable (entries whose version
\* text does not parse left aside)
C11_EveryOtherShareable ==
    Classified =>
        LET d == dependency
            r == Result
        IN  /\ d.kind = "Inherited" => r.type = "Inherited"
            /\ (d.kind = "Detailed" /\ UsesRegistry(d))
                    => r.type = "MustBeSkipped"
            /\ (/\ d.kind # "Inherited"
                /\ ~UsesRegistry(d)
                /\ VersionParses(d)) => r.type = "Shareable"

(***************************************************************************)
(* C12: Malformed version requirement is fatal.  If an entry visited by    *)
(* the aggregator that is classified from its `version` field carries an   *)
(* unparsable version-requirement string, the run does not get past the    *)
(* table that holds the entry: it aborts during aggregation, before any    *)
(* manifest is written, and every manifest is left as it was.              *)
(***************************************************************************)
\* the entry is classified from its version text, which does not parse
Malformed(d) ==
    /\ d.kind # "Inherited"
    /\ ~(d.kind = "Detailed" /\ UsesRegistry(d))
    /\ IsSome(d.version)
    /\ d.version[1] = BadText

MalformedInRoot ==
    \E k \in DOMAIN start_root.dependencies :
        Malformed(start_root.dependencies[k].value)

\* the tables of the members the aggregator visits that hold such an entry
MalformedTables ==
    {<<e[1], e[2]>> : e \in {e \in StartEntries : /\ e[1] \in InScope
                                                  /\ Malformed(StartValue(e))}}

MemberIndex(m) == CHOOSE i \in 1..Len(MemberSeq) : MemberSeq[i] = m
TableIndex(t) == CHOOSE i \in 1..Len(TableSeq) : TableSeq[i] = t

\* the aggregator has finished the table t of the member m
Passed(m, t) ==
    \/ pc \in {"resolve", "workspace", "inherit", "done"}
    \/ /\ pc = "aggregate"
       /\ \/ MemberIndex(m) < member_idx
          \/ MemberIndex(m) = member_idx /\ TableIndex(t) < table_idx

C12_MalformedFatal ==
    /\ MalformedInRoot => pc \in {"load", "root", "aborted"}
    /\ \A mt \in MalformedTables : ~Passed(mt[1], mt[2])
    /\ (MalformedInRoot \/ MalformedTables # {}) =>
        /\ written = {}
        /\ root_toml = start_root
        /\ member_toml = start_members
        /\ package_name2inherited_source = <<>>

\* the run aborted at a table of the second member, after entries of other
\* tables had been aggregated
C12_Witness ==
    /\ pc = "aborted"
    /\ ~MalformedInRoot
    /\ \E mt \in MalformedTables : MemberIndex(mt[1]) = 2
    /\ member_idx = 2
    /\ package_name2specs # <<>>
    /\ written = {}

(***************************************************************************)
(* C13: Default features of a centralized dependency.  For every package   *)
(* name with a Centralize decision, the canonical SharedDependency has     *)
(* defaultFeatures true if and only if every Shareable entry aggregated    *)
(* for that name, in the workspace manifest and in the tables of the       *)
(* in-scope members, had defaultFeatures true.                             *)
(***************************************************************************)
\* the defaultFeatures flag of an entry as the manifest states it
FlagOf(d) == d.kind = "Simple" \/ d.default_features # Some(FALSE)

\* the flags of the shareable entries that process_deps records under n
AggregatedFlags(n) ==
    {FlagOf(start_root.dependencies[k].value) :
        k \in {k \in DOMAIN start_root.dependencies :
                /\ k = n
                /\ start_root.dependencies[k].value.kind # "Inherited"}}
    \cup
    {FlagOf(StartValue(e)) : e \in Contributors(n)}

C13_DefaultFeatures ==
    Resolved =>
        \A n \in Centralized :
            package_name2inherited_source[n].default_features
                <=> (\A f \in AggregatedFlags(n) : f)

\* a centralized name was aggregated from an entry with the flag off and a
\* later one with the flag on
C13_Witness ==
    /\ pc = "done"
    /\ run = 1
    /\ \E n \in Centralized :
        /\ AggregatedFlags(n) = {TRUE, FALSE}
        /\ ~package_name2inherited_source[n].default_features
        /\ n \notin DOMAIN start_root.dependencies
        /\ \E e \in Contributors(n) :
            /\ MemberIndex(e[1]) = 1
            /\ ~FlagOf(StartValue(e))

(***************************************************************************)
(* C14: Order dependence of the first-match merge.  The claim is that      *)
(* three or more pairwise mergeable, pairwise different requirements and   *)
(* two insertion orders of them exist whose resulting sets differ in       *)
(* length or in keys.  What holds instead: whenever the requirements       *)
(* inserted into an empty set are pairwise mergeable and pairwise          *)
(* different, every insertion order of them, under every scan order of the *)
(* map, ends with the same keys, and with a single key.                    *)
(***************************************************************************)
\* the sequence deps in the order perm
Reordered(deps, perm) == [i \in 1..Len(deps) |-> deps[perm[i]]]

Mergeable(a, b) == IsSome(try_merge(a, b)) \/ IsSome(try_merge(b, a))

\* version requirements, pairwise different and pairwise mergeable
PairwiseMergeable(deps) ==
    /\ \A i \in 1..Len(deps) : deps[i].source.kind = "Version"
    /\ \A i, j \in 1..Len(deps) :
        i # j => /\ deps[i].source # deps[j].source
                 /\ Mergeable(deps[i].source.req[1], deps[j].source.req[1])

\* the key sets the set m can end with when deps are inserted in any order
KeySetsFrom(m, deps) ==
    {DOMAIN x : x \in UNION {insert_all(m, Reordered(deps, perm)) :
                                perm \in Permutations(1..Len(deps))}}

KeySetsOf(deps) == KeySetsFrom(EmptySet, deps)

C14_OrderIndependent ==
    (n_inserts >= 3 /\ PairwiseMergeable(inserted)) =>
        /\ KeySetsOf(inserted) = {DOMAIN seen}
        /\ len(seen) = 1

\* three pairwise mergeable requirements were inserted, the greatest first
C14_Witness ==
    /\ n_inserts = 3
    /\ PairwiseMergeable(inserted)
    /\ inserted[1].source = VersionSource(Caret3(1, 3, 1))
    /\ inserted[2].source = VersionSource(Caret2(1, 2))
    /\ inserted[3].source = VersionSource(Caret3(1, 2, 5))
    /\ DOMAIN seen = {VersionSource(Caret3(1, 3, 1))}

\* the same for any three sources, mergeable or not: the keys do not depend
\* on the order
C14_KeysOrderIndependent ==
    n_inserts = 3 => KeySetsOf(inserted) = {DOMAIN seen}

\* C14 as the specification words it: for an empty set, such requirements
\* and two orders with different resulting sets exist
C14_OrderDependence ==
    seen = EmptySet =>
        \E a, b, c \in {SharedDependency(TRUE, VersionSource(r)) : r \in SetReqs} :
            /\ PairwiseMergeable(<<a, b, c>>)
            /\ Cardinality(KeySetsFrom(seen, <<a, b, c>>)) > 1

(***************************************************************************)
(* C15: Rewritten members resolve to the canonical declaration.  Whenever  *)
(* the run replaces a member entry by a workspace reference, the           *)
(* shared-dependencies table holds, at the end of the run, an entry under  *)
(* the key of that entry whose source and defaultFeatures are those of the *)
(* canonical SharedDependency of the entry's package name, also when the   *)
(* table had an entry for that name before the run.                        *)
(***************************************************************************)
\* the member entries the run replaced by a workspace reference
Rewritten ==
    {e \in StartEntries : /\ StartValue(e).kind # "Inherited"
                          /\ NowValue(e).kind = "Inherited"}

\* the shared-dependencies table declares the canonical dependency of the
\* name n under the key k
DeclaresCanonical(k, n) ==
    /\ k \in DOMAIN root_toml.dependencies
    /\ n \in Centralized
    /\ Declared(root_toml.dependencies[k])
            = SourceType("Shareable", Some(package_name2inherited_source[n]))

C15_ResolvesToCanonical ==
    pc = "done" =>
        \A e \in Rewritten :
            DeclaresCanonical(e[3], PackageName(e[3], StartValue(e)))

\* the same, for workspaces in which no entry uses an alias
C15_ResolvesToCanonicalNoAlias == NoAlias => C15_ResolvesToCanonical

(***************************************************************************)
(* What a requirement matches (semver's VersionReq::matches on release     *)
(* versions): every comparator of the requirement accepts the version.     *)
(***************************************************************************)
Versions ==
    [major : 0..(MaxMajor + 1), minor : 0..(MaxMinor + 1),
     patch : 0..(MaxPatch + 1)]

\* v >= major.minor.patch, an absent part counting as 0
AtLeast(v, major, minor, patch) ==
    \/ v.major > major
    \/ /\ v.major = major
       /\ \/ v.minor > minor
          \/ v.minor = minor /\ v.patch >= patch

Part(o) == IF IsSome(o) THEN o[1] ELSE 0

\* v lies in the series the given parts of the comparator fix
SamePrefix(v, c) ==
    /\ v.major = c.major
    /\ IsSome(c.minor) => v.minor = c.minor[1]
    /\ IsSome(c.patch) => v.patch = c.patch[1]

MatchesComparator(c, v) ==
    IF c.op = "GreaterEq" THEN
        AtLeast(v, c.major, Part(c.minor), Part(c.patch))
    ELSE IF c.op = "Exact" THEN
        SamePrefix(v, c) /\ c.pre = ""
    ELSE \* Caret
        /\ AtLeast(v, c.major, Part(c.minor), Part(c.patch))
        /\ v.major = c.major
        /\ (c.major = 0 /\ IsSome(c.minor)) => v.minor = c.minor[1]
        /\ (c.major = 0 /\ c.minor = Some(0) /\ IsSome(c.patch))
                => v.patch = c.patch[1]

Matching(req) ==
    {v \in Versions : \A i \in 1..Len(req) : MatchesComparator(req[i], v)}

(***************************************************************************)
(* C16: Merge soundness.  Whenever try_merge(A, B) returns a requirement   *)
(* M, the release versions that match M are those that match both A and    *)
(* B.                                                                      *)
(***************************************************************************)
C16_MergeSound ==
    (merge_pc = "done" /\ IsSome(merged)) =>
        Matching(merged[1]) = Matching(first) \cap Matching(second)

\* two different carets of the same major were merged to a requirement
\* that matches some versions and rejects some that one of them accepts
C16_Witness ==
    /\ merge_pc = "done"
    /\ first = Caret3(1, 1, 1)
    /\ second = Caret2(1, 2)
    /\ merged = Some(Caret2(1, 2))
    /\ Matching(merged[1]) # {}
    /\ Matching(merged[1]) # Matching(first)

(***************************************************************************)
(* C17: Consistent package-name keying.  For every entry, also one whose   *)
(* key is an alias and whose real name is in its `package` field, the name *)
(* under which process_deps records the entry is the name inherit_deps     *)
(* looks the decision up with; so an entry is rewritten only when the name *)
(* it was recorded under has a Centralize decision.                        *)
(***************************************************************************)
\* the name process_deps records an entry under: the key of the table
RecordedName(k, d) == k

C17_ConsistentKeying ==
    pc = "done" =>
        \A e \in Rewritten :
            /\ RecordedName(e[3], StartValue(e)) = lookup_name(e[3], StartValue(e))
            /\ RecordedName(e[3], StartValue(e)) \in Centralized

\* an entry was rewritten although the name it was recorded under is skipped
C17_RewrittenWithoutDecision ==
    /\ pc = "done"
    /\ \E e \in Rewritten : e[3] \in Skipped

====
